---- MODULE Spec2Model ----
(***************************************************************************)
(* State-machine model of the FixNet repair-ordering client                *)
(* (src/src/App.tsx, src/src/api.ts): the Repair form with its catalog     *)
(* fetches, the service-center picker (MapPicker / MapView) and the        *)
(* submission flow.  React state hooks are the variables; every event      *)
(* handler and every promise continuation is one action, and an action     *)
(* includes the effects React runs after the state change it makes.        *)
(***************************************************************************)
EXTENDS Integers, Sequences, FiniteSets, TLC

(* ------------------------------ bounds --------------------------------- *)
\* requests of one kind (models, prices) that may be in flight together
MaxInFlight == 2
\* createRequest calls made during one life of the Repair component
MaxCreates == 2
\* rows in a servicecenters response
MaxCenters == 3

(* --------------------------- JS values --------------------------------- *)
\* null of a number-or-null state hook; like 0 it is falsy in `!brandId`
Null == 0
\* null of selectedCenterId (string | null): no code path stores "", and
\* null and "" are both falsy in `!selectedCenterId`
NullStr == << >>
\* null of userPos
NoPos == [none |-> TRUE]
\* null of Tracking's `data`
NoData == [none |-> TRUE]

DigitChars == <<"0", "1", "2", "3", "4", "5", "6", "7", "8", "9">>
IsDigit(c) == \E i \in 1..10 : DigitChars[i] = c
IsSpace(c) == c = " "

\* String(n) for a non-negative integer
RECURSIVE String(_)
String(n) ==
  IF n < 10 THEN <<DigitChars[n + 1]>>
  ELSE String(n \div 10) \o <<DigitChars[(n % 10) + 1]>>

DigitValue(c) == (CHOOSE i \in 1..10 : DigitChars[i] = c) - 1
\* Number(s) for a string of decimal digits
RECURSIVE Number(_)
Number(s) ==
  IF s = << >> THEN 0
  ELSE 10 * Number(SubSeq(s, 1, Len(s) - 1)) + DigitValue(s[Len(s)])

\* s.trim()
RECURSIVE TrimLeft(_)
TrimLeft(s) ==
  IF s # << >> /\ IsSpace(Head(s)) THEN TrimLeft(Tail(s)) ELSE s
RECURSIVE TrimRight(_)
TrimRight(s) ==
  IF s # << >> /\ IsSpace(s[Len(s)])
  THEN TrimRight(SubSeq(s, 1, Len(s) - 1)) ELSE s
Trim(s) == TrimRight(TrimLeft(s))

\* s.replace(/\D/g, "")
StripNonDigits(s) == SelectSeq(s, IsDigit)

SeqToSet(s) == {s[i] : i \in DOMAIN s}
\* arr.find(pred) returns the match of the least index
Least(S) == CHOOSE i \in S : \A j \in S : i <= j
RemoveAt(s, i) == SubSeq(s, 1, i - 1) \o SubSeq(s, i + 1, Len(s))

(* ---------------- the backend's data (the environment) ----------------- *)
\* GET /brands/
BrandRows ==
  << [id |-> 1, name |-> "Apple"], [id |-> 2, name |-> "Samsung"] >>
\* the rows GET /models/ selects from
ModelRows ==
  << [id |-> 1, name |-> "iPhone", brand |-> 1],
     [id |-> 2, name |-> "iPad", brand |-> 1],
     [id |-> 3, name |-> "Galaxy", brand |-> 2],
     [id |-> 4, name |-> "Note", brand |-> 2] >>
\* search texts the user types; "Pad" matches one model, "zz" none
Searches == {"", "Pad", "zz"}
MatchesSearch(q, row) == q = "" \/ (q = "Pad" /\ row.name = "iPad")
\* GET /models/?brand=<id>&q=<text>
ModelsOf(brand, q) ==
  LET Keep(row) == row.brand = brand /\ MatchesSearch(q, row)
  IN  SelectSeq(ModelRows, Keep)

\* a JS number / numeric string as received in JSON
Num(n) == [t |-> "number", v |-> n]
Str(s) == [t |-> "string", v |-> s]
\* GET /model-prices/?model=<id>: numeric fields are numbers or strings;
\* `issue` is the row's issue.code, "" when the row has none
PriceRows(model) ==
  CASE model = 1 ->
         << [issue |-> "screen", price_min |-> Num(8000),
             price_max |-> Num(10000), hours |-> Num(2)] >>
    [] model = 2 ->
         << [issue |-> "screen", price_min |-> Str(String(6000)),
             price_max |-> Str(String(9000)), hours |-> Str(String(3))],
            [issue |-> "battery", price_min |-> Num(2000),
             price_max |-> Num(4000), hours |-> Num(1)] >>
    [] model = 3 ->
         << [issue |-> "screen", price_min |-> Num(5000),
             price_max |-> Num(7000), hours |-> Str(<<"?">>)],
            [issue |-> "battery", price_min |-> Str(<<"n", "/", "a">>),
             price_max |-> Num(4000), hours |-> Num(1)] >>
    [] model = 4 ->
         << [issue |-> "screen", price_min |-> Num(4000),
             price_max |-> Num(6000), hours |-> Num(0)],
            [issue |-> "glass", price_min |-> Num(3000),
             price_max |-> Num(5000), hours |-> Num(-2)],
            [issue |-> "", price_min |-> Num(1000),
             price_max |-> Num(2000), hours |-> Num(1)] >>
    [] OTHER -> << >>

(* ------------------------- prices response ----------------------------- *)
NaN == [finite |-> FALSE, v |-> 0]
Finite(n) == [finite |-> TRUE, v |-> n]
\* Number(x) of a JSON value: a number is itself; a string is trimmed, ""
\* gives 0, decimal digits give their value, anything else NaN
ToNumber(x) ==
  IF x.t = "number" THEN Finite(x.v)
  ELSE LET s == Trim(x.v)
       IN  IF \A i \in DOMAIN s : IsDigit(s[i]) THEN Finite(Number(s)) ELSE NaN

EmptyMap == [c \in {} |-> 0]
\* the loop of the prices effect over rows[1..n]: later rows overwrite
RECURSIVE BuildPriceMap(_, _)
BuildPriceMap(rows, n) ==
  IF n = 0 THEN EmptyMap
  ELSE LET m     == BuildPriceMap(rows, n - 1)
           r     == rows[n]
           code  == r.issue
           min   == ToNumber(r.price_min)
           max   == ToNumber(r.price_max)
           hours == ToNumber(r.hours)
       IN  IF code = "" THEN m
           ELSE IF min.finite /\ max.finite
           THEN [c \in DOMAIN m \cup {code} |->
                   IF c = code
                   THEN [min |-> min.v, max |-> max.v,
                         hours |-> IF hours.finite THEN hours.v ELSE 1]
                   ELSE m[c]]
           ELSE m
ParsePrices(rows) == BuildPriceMap(rows, Len(rows))

(* ------------------------------ state ---------------------------------- *)
VARIABLES
  brands, brandId, models, modelId, modelSearch,   \* catalog selections
  issueCode, urgency, desc, priceMap,
  centers, selectedCenterId, userPos,              \* center picker
  showDialog, name, phone, agree,                  \* contact dialog
  brandsPending, centersPending, geoPending,       \* one-shot requests
  modelsInFlight, pricesInFlight, creating,        \* requests in flight
  created, orders, alerts,                         \* createRequest results
  leafletL, mapRef, markersRef, popup,             \* MapView
  issues, issuesPending,                           \* issue chips
  tab, appError, trackingData                      \* App, ErrorBoundary,
                                                   \* Tracking's `data`

catalogVars == <<brands, brandId, models, modelId, modelSearch, priceMap,
                 brandsPending, modelsInFlight, pricesInFlight>>
draftVars   == <<issueCode, urgency, desc>>
centerVars  == <<centers, selectedCenterId, userPos, centersPending,
                 geoPending>>
dialogVars  == <<showDialog, name, phone, agree>>
createVars  == <<creating, created, orders, alerts>>
mapVars     == <<leafletL, mapRef, markersRef, popup>>
issueVars   == <<issues, issuesPending>>
shellVars   == <<tab, appError, trackingData>>
vars == <<catalogVars, draftVars, centerVars, dialogVars, createVars, mapVars,
          issueVars, shellVars>>

(* --------------------------- derived values ---------------------------- *)
\* mutation: the length test on the phone as typed, non-digits included
phoneOk_Unstripped == Len(phone) >= 7
phoneOk == Len(StripNonDigits(phone)) >= 7
nameOk == Len(Trim(name)) >= 2

selectedBrandName ==
  LET hits == {i \in DOMAIN brands : brands[i].id = brandId}
  IN  IF hits = {} THEN "" ELSE brands[Least(hits)].name
selectedModelName ==
  LET hits == {i \in DOMAIN models : models[i].id = modelId}
  IN  IF hits = {} THEN "" ELSE models[Least(hits)].name

\* mutation: the center is not asked for
canOpenDialog_NoCenter == brandId # Null /\ modelId # Null
canOpenDialog == selectedCenterId # NullStr /\ brandId # Null /\ modelId # Null
submitDisabled == ~nameOk \/ ~phoneOk \/ ~agree

(* ----------------------------- estimate -------------------------------- *)
\* ISSUES_PRESET, the initial `issues` (codes; the names are display text)
ISSUES_PRESET ==
  << [code |-> "screen"], [code |-> "battery"], [code |-> "back"],
     [code |-> "camera"], [code |-> "charging"], [code |-> "water"],
     [code |-> "speaker"] >>
\* FALLBACK_PRICES; hours are kept in halves (hours2 = 2 * hours) because
\* camera has hours 1.5
FALLBACK_PRICES ==
  [c \in {"screen", "battery", "back", "camera", "charging", "water",
          "speaker"} |->
     CASE c = "screen"   -> [min |-> 7000, max |-> 12000, hours2 |-> 4]
       [] c = "battery"  -> [min |-> 3000, max |-> 6000, hours2 |-> 2]
       [] c = "back"     -> [min |-> 4000, max |-> 9000, hours2 |-> 4]
       [] c = "camera"   -> [min |-> 3500, max |-> 8000, hours2 |-> 3]
       [] c = "charging" -> [min |-> 2500, max |-> 6000, hours2 |-> 2]
       [] c = "water"    -> [min |-> 5000, max |-> 9000, hours2 |-> 6]
       [] c = "speaker"  -> [min |-> 2000, max |-> 5000, hours2 |-> 2]]

\* mutation: the static table is skipped
currentBase_NoFallback ==
  IF issueCode \in DOMAIN priceMap
  THEN [min |-> priceMap[issueCode].min, max |-> priceMap[issueCode].max,
        hours2 |-> 2 * priceMap[issueCode].hours]
  ELSE [min |-> 9000, max |-> 12000, hours2 |-> 2]
\* priceMap[issueCode] || FALLBACK_PRICES[issueCode] || {9000, 12000, 1}:
\* an entry of either table is an object, hence truthy (issue codes are not
\* names of Object.prototype)
currentBase ==
  IF issueCode \in DOMAIN priceMap
  THEN [min |-> priceMap[issueCode].min, max |-> priceMap[issueCode].max,
        hours2 |-> 2 * priceMap[issueCode].hours]
  ELSE IF issueCode \in DOMAIN FALLBACK_PRICES
  THEN FALLBACK_PRICES[issueCode]
  ELSE [min |-> 9000, max |-> 12000, hours2 |-> 2]

\* Math.round(n / d) for d > 0: the integer floor(n / d + 1 / 2)
MathRound(n, d) == (2 * n + d) \div (2 * d)
\* Math.max(a, b)
MathMax(a, b) == IF a >= b THEN a ELSE b

\* mutation: Math.round without Math.max(1, ...)
estimate_NoClamp ==
  LET coefUrgency100 == IF urgency = 3 THEN 125
                        ELSE IF urgency = 2 THEN 110 ELSE 100
      coefTime10 == IF urgency = 3 THEN 8 ELSE IF urgency = 2 THEN 10 ELSE 12
  IN  [ priceMid200 |-> (currentBase.min + currentBase.max) * coefUrgency100,
        time |-> MathRound(currentBase.hours2 * coefTime10, 20) ]
\* the estimate in exact arithmetic: priceMid in 1/200 of a rouble
\* (priceMid200 = 200 * priceMid), the multipliers 1.25, 1.1, 1 as
\* hundredths and 0.8, 1.0, 1.2 as tenths
estimate ==
  LET coefUrgency100 == IF urgency = 3 THEN 125
                        ELSE IF urgency = 2 THEN 110 ELSE 100
      coefTime10 == IF urgency = 3 THEN 8 ELSE IF urgency = 2 THEN 10 ELSE 12
  IN  [ priceMid200 |-> (currentBase.min + currentBase.max) * coefUrgency100,
        time |-> MathMax(1, MathRound(currentBase.hours2 * coefTime10, 20)) ]

(* ------------------------- geo distance -------------------------------- *)
\* the coordinates of the model are whole degrees around the map's initial
\* view [45.043, 41.97]: (45,41), (45,43), (46,42), (44,42), (45,42), and
\* the antipodal pair (8,-180), (-8,0)
\* NaN as a distance; every number the function returns is >= 0
NotANumber == -1
\* haversine(lat1, lon1, lat2, lon2) on the grid, in metres: the value of
\* 2 * R * atan2(sqrt(a), sqrt(1 - a)), R = 6371, evaluated in IEEE doubles
\* argument by argument (no symmetry or identity is assumed) and rounded.
\* For the antipodal pair sin(dLat/2)**2 + cos(lat1) * cos(lat2) * 1 is
\* 1.0000000000000002, Math.sqrt(1 - a) is NaN and so is the result
haversine(lat1, lon1, lat2, lon2) ==
  LET k == <<lat1, lon1, lat2, lon2>>
  IN CASE k = <<45, 41, 45, 41>> -> 0
    [] k = <<45, 41, 45, 43>> -> 157249
    [] k = <<45, 41, 46, 42>> -> 135786
    [] k = <<45, 41, 44, 42>> -> 136578
    [] k = <<45, 41, 45, 42>> -> 78626
    [] k = <<45, 41, 8, -180>> -> 12839805
    [] k = <<45, 41, -8, 0>> -> 7175281
    [] k = <<45, 43, 45, 41>> -> 157249
    [] k = <<45, 43, 45, 43>> -> 0
    [] k = <<45, 43, 46, 42>> -> 135786
    [] k = <<45, 43, 44, 42>> -> 136578
    [] k = <<45, 43, 45, 42>> -> 78626
    [] k = <<45, 43, 8, -180>> -> 12724881
    [] k = <<45, 43, -8, 0>> -> 7290205
    [] k = <<46, 42, 45, 41>> -> 135786
    [] k = <<46, 42, 45, 43>> -> 135786
    [] k = <<46, 42, 46, 42>> -> 0
    [] k = <<46, 42, 44, 42>> -> 222390
    [] k = <<46, 42, 45, 42>> -> 111195
    [] k = <<46, 42, 8, -180>> -> 12706650
    [] k = <<46, 42, -8, 0>> -> 7308437
    [] k = <<44, 42, 45, 41>> -> 136578
    [] k = <<44, 42, 45, 43>> -> 136578
    [] k = <<44, 42, 46, 42>> -> 222390
    [] k = <<44, 42, 44, 42>> -> 0
    [] k = <<44, 42, 45, 42>> -> 111195
    [] k = <<44, 42, 8, -180>> -> 12858427
    [] k = <<44, 42, -8, 0>> -> 7156659
    [] k = <<45, 42, 45, 41>> -> 78626
    [] k = <<45, 42, 45, 43>> -> 78626
    [] k = <<45, 42, 46, 42>> -> 111195
    [] k = <<45, 42, 44, 42>> -> 111195
    [] k = <<45, 42, 45, 42>> -> 0
    [] k = <<45, 42, 8, -180>> -> 12782780
    [] k = <<45, 42, -8, 0>> -> 7232307
    [] k = <<8, -180, 45, 41>> -> 12839805
    [] k = <<8, -180, 45, 43>> -> 12724881
    [] k = <<8, -180, 46, 42>> -> 12706650
    [] k = <<8, -180, 44, 42>> -> 12858427
    [] k = <<8, -180, 45, 42>> -> 12782780
    [] k = <<8, -180, 8, -180>> -> 0
    [] k = <<8, -180, -8, 0>> -> NotANumber
    [] k = <<-8, 0, 45, 41>> -> 7175281
    [] k = <<-8, 0, 45, 43>> -> 7290205
    [] k = <<-8, 0, 46, 42>> -> 7308437
    [] k = <<-8, 0, 44, 42>> -> 7156659
    [] k = <<-8, 0, 45, 42>> -> 7232307
    [] k = <<-8, 0, 8, -180>> -> NotANumber
    [] k = <<-8, 0, -8, 0>> -> 0

(* --------------------- MapPicker.centersSorted ------------------------- *)
\* the comparator (a, b) => da - db
distanceCompare(pos, a, b) ==
  haversine(pos.lat, pos.lng, a.lat, a.lng)
    - haversine(pos.lat, pos.lng, b.lat, b.lng)
\* Array.prototype.sort is stable (ES2019): an element goes before the first
\* element that compares greater than it, hence after its equals
\* mutation: an unstable sort, an element going before its equals
InsertByDistance_Unstable(sorted, x, pos) ==
  LET after == {i \in DOMAIN sorted : distanceCompare(pos, sorted[i], x) >= 0}
      at    == IF after = {} THEN Len(sorted) + 1
               ELSE CHOOSE i \in after : \A j \in after : i <= j
  IN  SubSeq(sorted, 1, at - 1) \o <<x>> \o SubSeq(sorted, at, Len(sorted))
InsertByDistance(sorted, x, pos) ==
  LET after == {i \in DOMAIN sorted : distanceCompare(pos, sorted[i], x) > 0}
      at    == IF after = {} THEN Len(sorted) + 1
               ELSE CHOOSE i \in after : \A j \in after : i <= j
  IN  SubSeq(sorted, 1, at - 1) \o <<x>> \o SubSeq(sorted, at, Len(sorted))
RECURSIVE SortByDistance(_, _, _)
SortByDistance(arr, n, pos) ==
  IF n = 0 THEN << >>
  ELSE InsertByDistance(SortByDistance(arr, n - 1, pos), arr[n], pos)
\* useMemo(() => !userPos ? centers : [...centers].sort(...))
Rank(cs, pos) ==
  IF pos = NoPos THEN cs ELSE SortByDistance(cs, Len(cs), pos)
centersSorted == Rank(centers, userPos)

\* GET /servicecenters/: the rows the backend may hold
CenterPool ==
  << [id |-> 1, lat |-> 45, lng |-> 41], [id |-> 2, lat |-> 45, lng |-> 43],
     [id |-> 3, lat |-> 46, lng |-> 42], [id |-> 4, lat |-> 44, lng |-> 42] >>
\* every response of at most MaxCenters distinct rows, in any order
CenterLists ==
  UNION { { s \in [1..n -> SeqToSet(CenterPool)] :
              \A i, j \in 1..n : i # j => s[i] # s[j] } : n \in 0..MaxCenters }
\* positions navigator.geolocation may report
UserPositions ==
  { [lat |-> 45, lng |-> 42], [lat |-> 45, lng |-> 41],
    [lat |-> 44, lng |-> 42] }

\* the rows and positions of SpecGeo: the grid and the antipodal pair
GeoCenterPool == CenterPool \o << [id |-> 5, lat |-> -8, lng |-> 0] >>
GeoCenterLists ==
  UNION { { s \in [1..n -> SeqToSet(GeoCenterPool)] :
              \A i, j \in 1..n : i # j => s[i] # s[j] } : n \in 0..MaxCenters }
GeoPositions == UserPositions \cup { [lat |-> 8, lng |-> -180] }
\* renderList: dist = userPos ? haversine(userPos.lat, userPos.lng, s.lat,
\* s.lng) : null, the distance a row of the list shows
dist(s) == haversine(userPos.lat, userPos.lng, s.lat, s.lng)

(* ------------------------ user input alphabets ------------------------- *)
\* what the user types into the name field ("", " a ", "a b")
NameInputs == { << >>, <<" ", "a", " ">>, <<"a", " ", "b">> }
\* what the user types into the phone field ("", "12-34-56 ", "+7 912345")
PhoneInputs ==
  { << >>,
    <<"1", "2", "-", "3", "4", "-", "5", "6", " ">>,
    <<"+", "7", " ", "9", "1", "2", "3", "4", "5">> }
DescInputs == { << >>, <<"x">> }
\* the issue chips the user clicks (two of ISSUES_PRESET)
IssueChoices == {"screen", "battery"}

(* ------------------------------- Init ---------------------------------- *)
\* the state after the first render of Repair and its mount effects: the
\* brands, issues and centers requests are out, the models and prices
\* effects have taken their no-brand / no-model branch, geolocation is
\* requested when navigator.geolocation exists, Leaflet is loading
Init ==
  /\ brands = << >> /\ brandId = Null /\ models = << >> /\ modelId = Null
  /\ modelSearch = "" /\ issueCode = "screen" /\ urgency = 2 /\ desc = << >>
  /\ priceMap = EmptyMap
  /\ centers = << >> /\ selectedCenterId = NullStr /\ userPos = NoPos
  /\ showDialog = FALSE /\ name = << >> /\ phone = << >> /\ agree = FALSE
  /\ brandsPending = TRUE /\ centersPending = TRUE
  /\ geoPending \in BOOLEAN
  /\ modelsInFlight = << >> /\ pricesInFlight = << >> /\ creating = << >>
  /\ created = 0 /\ orders = << >> /\ alerts = 0
  /\ leafletL = FALSE /\ mapRef = FALSE /\ markersRef = {} /\ popup = NullStr
  /\ issues = ISSUES_PRESET /\ issuesPending = TRUE
  /\ tab = "Repair" /\ appError = FALSE /\ trackingData = NoData

(* ----------------------- effects of Repair ----------------------------- *)
\* mutation: the `if (!modelId)` early return left out
PricesEffect_NoGuard(m) ==
  IF m = modelId THEN UNCHANGED <<priceMap, pricesInFlight>>
  ELSE /\ Len(pricesInFlight) < MaxInFlight
       /\ pricesInFlight' = Append(pricesInFlight, m)
       /\ UNCHANGED priceMap

\* useEffect(..., [modelId]) run after a render in which modelId became m
PricesEffect(m) ==
  IF m = modelId THEN UNCHANGED <<priceMap, pricesInFlight>>
  ELSE IF m = Null THEN priceMap' = EmptyMap /\ UNCHANGED pricesInFlight
  ELSE /\ Len(pricesInFlight) < MaxInFlight
       /\ pricesInFlight' = Append(pricesInFlight, m)
       /\ UNCHANGED priceMap

\* useEffect(..., [brandId, modelSearch]) run after a render in which they
\* became b and q
ModelsEffect(b, q) ==
  IF b = brandId /\ q = modelSearch
  THEN UNCHANGED <<models, modelId, modelsInFlight, priceMap, pricesInFlight>>
  ELSE IF b = Null
  THEN /\ models' = << >>
       /\ modelId' = Null
       /\ PricesEffect(Null)
       /\ UNCHANGED modelsInFlight
  ELSE /\ Len(modelsInFlight) < MaxInFlight
       /\ modelsInFlight' = Append(modelsInFlight, [brand |-> b, q |-> q])
       /\ UNCHANGED <<models, modelId, priceMap, pricesInFlight>>

(* ------------------------ catalog: responses --------------------------- *)
\* the brandId the brands effect's closure reads: the mount render's
brandIdAtMount == Null
\* getBrands().then
BrandsResponse(arr) ==
  /\ brandsPending
  /\ brandsPending' = FALSE
  /\ brands' = arr
  /\ brandId' = IF arr # << >> /\ brandIdAtMount = Null THEN arr[1].id
               ELSE brandId
  /\ ModelsEffect(brandId', modelSearch)
  /\ UNCHANGED <<modelSearch, draftVars, centerVars, dialogVars, createVars,
                 mapVars>>
  /\ UNCHANGED <<issueVars, shellVars>>

\* getBrands().catch
BrandsFail ==
  /\ brandsPending
  /\ brandsPending' = FALSE
  /\ brands' = << >>
  /\ UNCHANGED <<brandId, models, modelId, modelSearch, priceMap,
                 modelsInFlight, pricesInFlight, draftVars, centerVars,
                 dialogVars, createVars, mapVars>>
  /\ UNCHANGED <<issueVars, shellVars>>

\* getDeviceModels(...).then for the i-th request in flight
ModelsResponse(i) ==
  /\ i \in DOMAIN modelsInFlight
  /\ LET arr == ModelsOf(modelsInFlight[i].brand, modelsInFlight[i].q)
     IN  /\ models' = arr
         /\ modelId' = IF arr # << >> THEN arr[1].id ELSE Null
  /\ modelsInFlight' = RemoveAt(modelsInFlight, i)
  /\ PricesEffect(modelId')
  /\ UNCHANGED <<brands, brandId, modelSearch, brandsPending, draftVars,
                 centerVars, dialogVars, createVars, mapVars>>
  /\ UNCHANGED <<issueVars, shellVars>>

\* mutation: setModelId(null) left out of the catch
ModelsFail_KeepsModelId(i) ==
  /\ i \in DOMAIN modelsInFlight
  /\ models' = << >>
  /\ modelsInFlight' = RemoveAt(modelsInFlight, i)
  /\ UNCHANGED <<brands, brandId, modelId, modelSearch, brandsPending,
                 priceMap, pricesInFlight, draftVars, centerVars, dialogVars,
                 createVars, mapVars>>
  /\ UNCHANGED <<issueVars, shellVars>>

\* getDeviceModels(...).catch for the i-th request in flight
ModelsFail(i) ==
  /\ i \in DOMAIN modelsInFlight
  /\ models' = << >>
  /\ modelId' = Null
  /\ modelsInFlight' = RemoveAt(modelsInFlight, i)
  /\ PricesEffect(Null)
  /\ UNCHANGED <<brands, brandId, modelSearch, brandsPending, draftVars,
                 centerVars, dialogVars, createVars, mapVars>>
  /\ UNCHANGED <<issueVars, shellVars>>

\* getModelPrices(modelId).then for the i-th request in flight
PricesResponse(i) ==
  /\ i \in DOMAIN pricesInFlight
  /\ priceMap' = ParsePrices(PriceRows(pricesInFlight[i]))
  /\ pricesInFlight' = RemoveAt(pricesInFlight, i)
  /\ UNCHANGED <<brands, brandId, models, modelId, modelSearch, brandsPending,
                 modelsInFlight, draftVars, centerVars, dialogVars,
                 createVars, mapVars>>
  /\ UNCHANGED <<issueVars, shellVars>>

\* getModelPrices(modelId).catch for the i-th request in flight
PricesFail(i) ==
  /\ i \in DOMAIN pricesInFlight
  /\ priceMap' = EmptyMap
  /\ pricesInFlight' = RemoveAt(pricesInFlight, i)
  /\ UNCHANGED <<brands, brandId, models, modelId, modelSearch, brandsPending,
                 modelsInFlight, draftVars, centerVars, dialogVars,
                 createVars, mapVars>>
  /\ UNCHANGED <<issueVars, shellVars>>

(* ------------------------ catalog: the form ---------------------------- *)
\* <select> of brands: onChange={(e) => setBrandId(Number(e.target.value))}
SelectBrand(b) ==
  /\ \E i \in DOMAIN brands : brands[i].id = b
  /\ b # brandId
  /\ brandId' = b
  /\ ModelsEffect(b, modelSearch)
  /\ UNCHANGED <<brands, modelSearch, brandsPending, draftVars, centerVars,
                 dialogVars, createVars, mapVars>>
  /\ UNCHANGED <<issueVars, shellVars>>

\* model search box: onChange={(e) => setModelSearch(e.target.value)}
SetModelSearch(q) ==
  /\ q # modelSearch
  /\ modelSearch' = q
  /\ ModelsEffect(brandId, q)
  /\ UNCHANGED <<brands, brandId, brandsPending, draftVars, centerVars,
                 dialogVars, createVars, mapVars>>
  /\ UNCHANGED <<issueVars, shellVars>>

\* <select> of models: onChange={(e) => setModelId(Number(e.target.value))}
\* over <option value={m.id}>, whose value attribute is the string of the id
SelectModel(m) ==
  /\ \E i \in DOMAIN models : models[i].id = m
  /\ m # modelId
  /\ modelId' = Number(String(m))
  /\ PricesEffect(modelId')
  /\ UNCHANGED <<brands, brandId, models, modelSearch, brandsPending,
                 modelsInFlight, draftVars, centerVars, dialogVars,
                 createVars, mapVars>>
  /\ UNCHANGED <<issueVars, shellVars>>

\* issue chip: onClick={() => setIssueCode(it.code)}
SelectIssue(code) ==
  /\ \E i \in DOMAIN issues : issues[i].code = code
  /\ code # issueCode
  /\ issueCode' = code
  /\ UNCHANGED <<catalogVars, urgency, desc, centerVars, dialogVars,
                 createVars, mapVars, issues, issuesPending, shellVars>>

\* the issueCode the issues effect's closure reads: the mount render's
issueCodeAtMount == "screen"
\* GET /issues/: the lists the backend may hold; "glass" is a code that
\* FALLBACK_PRICES does not have
IssueLists ==
  { << >>,
    << [code |-> "screen"], [code |-> "battery"] >>,
    << [code |-> "battery"], [code |-> "glass"] >> }
\* getIssues().then
IssuesResponse(arr) ==
  /\ issuesPending
  /\ issuesPending' = FALSE
  /\ IF arr # << >>
     THEN /\ issues' = arr
          /\ issueCode' =
               IF \E i \in DOMAIN arr : arr[i].code = issueCodeAtMount
               THEN issueCode ELSE "screen"
     ELSE UNCHANGED <<issues, issueCode>>
  /\ UNCHANGED <<catalogVars, urgency, desc, centerVars, dialogVars,
                 createVars, mapVars, shellVars>>

\* getIssues().catch(() => {})
IssuesFail ==
  /\ issuesPending
  /\ issuesPending' = FALSE
  /\ UNCHANGED <<catalogVars, draftVars, centerVars, dialogVars, createVars,
                 mapVars, issues, shellVars>>

\* urgency slider: onChange={(v) => setUrgency(v)}
SetUrgency(v) ==
  /\ v # urgency
  /\ urgency' = v
  /\ UNCHANGED <<catalogVars, issueCode, desc, centerVars, dialogVars,
                 createVars, mapVars>>
  /\ UNCHANGED <<issueVars, shellVars>>

\* description input: onChange={(e) => setDesc(e.target.value)}
SetDesc(d) ==
  /\ d # desc
  /\ desc' = d
  /\ UNCHANGED <<catalogVars, issueCode, urgency, centerVars, dialogVars,
                 createVars, mapVars>>
  /\ UNCHANGED <<issueVars, shellVars>>

(* --------------------------- MapView effects --------------------------- *)
\* useEffect(..., [selectedId]) run after a render in which selectedId
\* became id: with a map and a marker of that id, m.openPopup() (Leaflet
\* keeps one popup open on a map)
SelectedIdEffect(id) ==
  IF id = selectedCenterId THEN UNCHANGED popup
  ELSE IF mapRef /\ leafletL /\ id # NullStr /\ id \in markersRef
  THEN popup' = id
  ELSE UNCHANGED popup

\* useEffect(..., [JSON.stringify(points)]) run after a render in which
\* points became pts: without window.L or a map it returns; otherwise markers
\* of ids that left are removed (with their popup) and missing ones added
PointsEffect(pts) ==
  IF pts = centers \/ ~leafletL \/ ~mapRef
  THEN UNCHANGED <<markersRef, popup>>
  ELSE /\ markersRef' = {String(pts[i].id) : i \in DOMAIN pts}
       /\ popup' = IF popup \in markersRef' THEN popup ELSE NullStr

(* ------------------------- centers and position ------------------------ *)
\* getCenters().then
CentersResponse(arr) ==
  /\ centersPending
  /\ centersPending' = FALSE
  /\ centers' = arr
  /\ PointsEffect(arr)
  /\ UNCHANGED <<catalogVars, draftVars, selectedCenterId, userPos,
                 geoPending, dialogVars, createVars, leafletL, mapRef>>
  /\ UNCHANGED <<issueVars, shellVars>>

\* getCenters().catch
CentersFail ==
  /\ centersPending
  /\ centersPending' = FALSE
  /\ centers' = << >>
  /\ PointsEffect(<< >>)
  /\ UNCHANGED <<catalogVars, draftVars, selectedCenterId, userPos,
                 geoPending, dialogVars, createVars, leafletL, mapRef>>
  /\ UNCHANGED <<issueVars, shellVars>>

\* mutation: centers.sort(...) without the copy, run when the position comes
GeoSuccess_SortsInPlace(pos) ==
  /\ geoPending
  /\ geoPending' = FALSE
  /\ userPos' = pos
  /\ centers' = Rank(centers, pos)
  /\ UNCHANGED <<catalogVars, draftVars, selectedCenterId, centersPending,
                 dialogVars, createVars, mapVars>>
  /\ UNCHANGED <<issueVars, shellVars>>

\* getCurrentPosition success callback
GeoSuccess(pos) ==
  /\ geoPending
  /\ geoPending' = FALSE
  /\ userPos' = pos
  /\ UNCHANGED <<catalogVars, draftVars, centers, selectedCenterId,
                 centersPending, dialogVars, createVars, mapVars>>
  /\ UNCHANGED <<issueVars, shellVars>>

\* mutation: the error callback reports the failure with an alert
GeoError_Alerts ==
  /\ geoPending
  /\ geoPending' = FALSE
  /\ userPos' = NoPos
  /\ alerts' = alerts + 1
  /\ UNCHANGED <<catalogVars, draftVars, centers, selectedCenterId,
                 centersPending, dialogVars, creating, created, orders,
                 mapVars>>
  /\ UNCHANGED <<issueVars, shellVars>>

\* getCurrentPosition error callback (denied, unavailable, 5 s timeout)
GeoError ==
  /\ geoPending
  /\ geoPending' = FALSE
  /\ userPos' = NoPos
  /\ UNCHANGED <<catalogVars, draftVars, centers, selectedCenterId,
                 centersPending, dialogVars, createVars, mapVars>>
  /\ UNCHANGED <<issueVars, shellVars>>

\* a row of renderList(): onClick={() => { onSelect(String(s.id)); ... }}
SelectFromList(i) ==
  /\ i \in DOMAIN centersSorted
  /\ selectedCenterId' = String(centersSorted[i].id)
  /\ selectedCenterId' # selectedCenterId
  /\ SelectedIdEffect(selectedCenterId')
  /\ UNCHANGED <<catalogVars, draftVars, centers, userPos, centersPending,
                 geoPending, dialogVars, createVars, leafletL, mapRef,
                 markersRef>>
  /\ UNCHANGED <<issueVars, shellVars>>

\* a marker: m.on("click", () => onSelect(id)); the popup bound to the
\* marker is opened by the same click
MarkerClick(id) ==
  /\ mapRef
  /\ id \in markersRef
  /\ id # selectedCenterId \/ popup # id
  /\ selectedCenterId' = id
  /\ popup' = id
  /\ UNCHANGED <<catalogVars, draftVars, centers, userPos, centersPending,
                 geoPending, dialogVars, createVars, leafletL, mapRef,
                 markersRef>>
  /\ UNCHANGED <<issueVars, shellVars>>

\* the continuation of `await loadLeaflet()` in the map init effect: the
\* script has set window.L, L.map(...) is stored in mapRef; no state hook
\* changes, so no effect runs again
LeafletLoaded ==
  /\ ~leafletL
  /\ leafletL' = TRUE
  /\ mapRef' = TRUE
  /\ UNCHANGED <<catalogVars, draftVars, centerVars, dialogVars, createVars,
                 markersRef, popup>>
  /\ UNCHANGED <<issueVars, shellVars>>

(* ----------------------------- the dialog ------------------------------ *)
\* "Оформить заявку": disabled={!canOpenDialog}, setShowDialog(true)
OpenDialog ==
  /\ canOpenDialog
  /\ ~showDialog
  /\ showDialog' = TRUE
  /\ UNCHANGED <<catalogVars, draftVars, centerVars, name, phone, agree,
                 createVars, mapVars>>
  /\ UNCHANGED <<issueVars, shellVars>>

\* Modal onClose
CloseDialog ==
  /\ showDialog
  /\ showDialog' = FALSE
  /\ UNCHANGED <<catalogVars, draftVars, centerVars, name, phone, agree,
                 createVars, mapVars>>
  /\ UNCHANGED <<issueVars, shellVars>>

\* the Modal's inputs exist only while it is open
SetName(n) ==
  /\ showDialog
  /\ n # name
  /\ name' = n
  /\ UNCHANGED <<catalogVars, draftVars, centerVars, showDialog, phone, agree,
                 createVars, mapVars>>
  /\ UNCHANGED <<issueVars, shellVars>>

SetPhone(p) ==
  /\ showDialog
  /\ p # phone
  /\ phone' = p
  /\ UNCHANGED <<catalogVars, draftVars, centerVars, showDialog, name, agree,
                 createVars, mapVars>>
  /\ UNCHANGED <<issueVars, shellVars>>

SetAgree(a) ==
  /\ showDialog
  /\ a # agree
  /\ agree' = a
  /\ UNCHANGED <<catalogVars, draftVars, centerVars, showDialog, name, phone,
                 createVars, mapVars>>
  /\ UNCHANGED <<issueVars, shellVars>>

(* ------------------------------ submit --------------------------------- *)
\* the early return of submit
submitBlocked ==
  \/ selectedCenterId = NullStr
  \/ ~agree
  \/ ~nameOk
  \/ ~phoneOk
  \/ brandId = Null
  \/ modelId = Null

payload ==
  [ brand |-> selectedBrandName,
    model |-> selectedModelName,
    issue |-> issueCode,
    urgency |-> urgency,
    description |-> desc,
    center |-> Number(selectedCenterId),
    customer_name |-> Trim(name),
    customer_phone |-> Trim(phone),
    agree_to_offer |-> TRUE ]

\* "Подтвердить и отправить": onClick={submit}, disabled={!nameOk ||
\* !phoneOk || !agree}; submit up to its await
Submit ==
  /\ showDialog
  /\ ~submitDisabled
  /\ IF submitBlocked
     THEN UNCHANGED <<creating, created>>
     ELSE /\ created < MaxCreates
          /\ created' = created + 1
          /\ creating' = Append(creating, [n |-> created + 1, body |-> payload])
  /\ UNCHANGED <<catalogVars, draftVars, centerVars, dialogVars, orders,
                 alerts, mapVars>>
  /\ UNCHANGED <<issueVars, shellVars>>

\* mutation: setAgree(false) left out of the reset
SubmitSuccess_KeepsAgree(i) ==
  /\ i \in DOMAIN creating
  /\ creating' = RemoveAt(creating, i)
  /\ showDialog' = FALSE
  /\ name' = << >>
  /\ phone' = << >>
  /\ desc' = << >>
  /\ orders' = Append(orders, String(creating[i].n))
  /\ UNCHANGED <<catalogVars, issueCode, urgency, centerVars, agree, created,
                 alerts, mapVars>>
  /\ UNCHANGED <<issueVars, shellVars>>

\* submit after `await createRequest(payload)` resolved: the backend answers
\* the n-th POST with the id n
SubmitSuccess(i) ==
  /\ i \in DOMAIN creating
  /\ creating' = RemoveAt(creating, i)
  /\ showDialog' = FALSE
  /\ name' = << >>
  /\ phone' = << >>
  /\ agree' = FALSE
  /\ desc' = << >>
  /\ orders' = Append(orders, String(creating[i].n))
  /\ UNCHANGED <<catalogVars, issueCode, urgency, centerVars, created, alerts,
                 mapVars>>
  /\ UNCHANGED <<issueVars, shellVars>>

\* mutation: the dialog closed in a finally, hence also after a rejection
SubmitFailure_ClosesDialog(i) ==
  /\ i \in DOMAIN creating
  /\ creating' = RemoveAt(creating, i)
  /\ alerts' = alerts + 1
  /\ showDialog' = FALSE
  /\ UNCHANGED <<catalogVars, draftVars, centerVars, name, phone, agree,
                 created, orders, mapVars>>
  /\ UNCHANGED <<issueVars, shellVars>>

\* submit's catch: alert("Не удалось создать заявку: ...")
SubmitFailure(i) ==
  /\ i \in DOMAIN creating
  /\ creating' = RemoveAt(creating, i)
  /\ alerts' = alerts + 1
  /\ UNCHANGED <<catalogVars, draftVars, centerVars, dialogVars, created,
                 orders, mapVars>>
  /\ UNCHANGED <<issueVars, shellVars>>

(* ------------------------- App and its sections ----------------------- *)
\* the tabs "Ремонт", "Отслеживание", "Поддержка"
Tabs == {"Repair", "Tracking", "Support"}
\* what is on screen.  App renders <ErrorBoundary> around the header, the
\* navigation, the section of the current tab and the footer; with an
\* error in its state the boundary renders the "Ошибка приложения" panel
\* instead of its children
Rendered(region) ==
  /\ ~appError
  /\ region \in {"header", "nav", "footer"} \/ region = tab

\* the first render of Repair and its mount effects, as in Init; window.L
\* outlives the component, and with the script loaded the map is created
\* right after the mount
RepairMount ==
  /\ brands' = << >> /\ brandId' = Null /\ models' = << >> /\ modelId' = Null
  /\ modelSearch' = "" /\ issueCode' = "screen" /\ urgency' = 2
  /\ desc' = << >> /\ priceMap' = EmptyMap
  /\ centers' = << >> /\ selectedCenterId' = NullStr /\ userPos' = NoPos
  /\ showDialog' = FALSE /\ name' = << >> /\ phone' = << >> /\ agree' = FALSE
  /\ brandsPending' = TRUE /\ centersPending' = TRUE
  /\ geoPending' \in BOOLEAN
  /\ modelsInFlight' = << >> /\ pricesInFlight' = << >>
  /\ leafletL' = leafletL /\ mapRef' = leafletL /\ markersRef' = {}
  /\ popup' = NullStr
  /\ issues' = ISSUES_PRESET /\ issuesPending' = TRUE

\* a navigation button: onClick={() => { setTab(t); setMobileOpen(false) }}
\* (the menu flag is not part of the model).  main renders the section of
\* the tab only, so the section left is unmounted and its state is gone,
\* the section entered is mounted anew; responses to requests of an
\* unmounted section change nothing
SetTab(t) ==
  /\ Rendered("nav")
  /\ t \in Tabs
  /\ t # tab
  /\ tab' = t
  /\ trackingData' = NoData
  /\ IF t = "Repair" THEN RepairMount
     ELSE UNCHANGED <<catalogVars, draftVars, centerVars, dialogVars, mapVars,
                      issueVars>>
  /\ UNCHANGED <<appError, createVars>>

\* GET /repairs/<id>/: bodies the backend may answer with; `center` is a
\* number, or an object as the nested `brand` of a models row is
TrackingBodies ==
  { [id |-> 1, center |-> [t |-> "number", v |-> 2]],
    [id |-> 1, center |-> [t |-> "object", v |-> 2]] }
\* React renders a string or a number child and throws on an object child
\* ("Objects are not valid as a React child")
TrackingRenderThrows(d) == d # NoData /\ d.center.t = "object"

\* Tracking.load after `await fetchRequestById(id)` resolved: setData, then
\* the render of <div>Сервис: {data.center}</div>; an error thrown by a
\* render goes to the nearest ErrorBoundary (getDerivedStateFromError)
TrackingResponse(d) ==
  /\ Rendered("Tracking")
  /\ trackingData' = d
  /\ appError' = TrackingRenderThrows(d)
  /\ UNCHANGED <<catalogVars, draftVars, centerVars, dialogVars, createVars,
                 mapVars, issueVars, tab>>

\* Tracking.load's catch: alert("Не найдено: ...")
TrackingFail ==
  /\ Rendered("Tracking")
  /\ alerts' = alerts + 1
  /\ UNCHANGED <<catalogVars, draftVars, centerVars, dialogVars, creating,
                 created, orders, mapVars, issueVars, shellVars>>

(* ------------------------ response shapes ----------------------------- *)
\* the body of a 200 response of a list endpoint: the bare array of rows, or
\* an envelope object with the rows in `results`
Bare(rows) == [array |-> TRUE, rows |-> rows]
Envelope(rows) == [array |-> FALSE, results |-> rows]
Shapes(rows) == {Bare(rows), Envelope(rows)}
\* Array.isArray(data) ? data : data?.results || []
ArrayOrResults(data) == IF data.array THEN data.rows ELSE data.results
\* (Array.isArray(data) && data) || (data && (data.results || data.data))
\* || []  (an array, also an empty one, is truthy)
CentersArray(data) == IF data.array THEN data.rows ELSE data.results

\* getBrands().then((data) => ...)
BrandsData(data) == BrandsResponse(ArrayOrResults(data))

\* getDeviceModels(...).then((data) => ...) for the i-th request in flight
ModelsData(i, data) ==
  /\ i \in DOMAIN modelsInFlight
  /\ LET arr == ArrayOrResults(data)
     IN  /\ models' = arr
         /\ modelId' = IF arr # << >> THEN arr[1].id ELSE Null
  /\ modelsInFlight' = RemoveAt(modelsInFlight, i)
  /\ PricesEffect(modelId')
  /\ UNCHANGED <<brands, brandId, modelSearch, brandsPending, draftVars,
                 centerVars, dialogVars, createVars, mapVars, issueVars,
                 shellVars>>

\* getIssues().then((d) => ...)
IssuesData(data) == IssuesResponse(ArrayOrResults(data))

\* getModelPrices(modelId).then((rows) => ...).catch(...) for the i-th
\* request in flight: `for (const r of rows)` iterates an array; an object
\* is not iterable, the TypeError rejects the promise and the catch runs
PricesData(i, data) ==
  /\ i \in DOMAIN pricesInFlight
  /\ priceMap' = IF data.array THEN ParsePrices(data.rows) ELSE EmptyMap
  /\ pricesInFlight' = RemoveAt(pricesInFlight, i)
  /\ UNCHANGED <<brands, brandId, models, modelId, modelSearch, brandsPending,
                 modelsInFlight, draftVars, centerVars, dialogVars,
                 createVars, mapVars, issueVars, shellVars>>

\* getCenters().then((data) => ...)
CentersData(data) == CentersResponse(CentersArray(data))

(* --------------------------- specifications ---------------------------- *)
\* the ids the backend knows
BrandIds == {BrandRows[i].id : i \in DOMAIN BrandRows}
ModelIds == {ModelRows[i].id : i \in DOMAIN ModelRows}

\* the catalog: brands, models and prices with every response order
NextCatalog ==
  \/ \E arr \in {<< >>, BrandRows} : BrandsResponse(arr)
  \/ BrandsFail
  \/ \E i \in 1..MaxInFlight : ModelsResponse(i)
  \/ \E i \in 1..MaxInFlight : ModelsFail(i)
  \/ \E i \in 1..MaxInFlight : PricesResponse(i)
  \/ \E i \in 1..MaxInFlight : PricesFail(i)
  \/ \E b \in BrandIds : SelectBrand(b)
  \/ \E q \in Searches : SetModelSearch(q)
  \/ \E m \in ModelIds : SelectModel(m)

SpecCatalog == Init /\ [][NextCatalog]_vars

\* no catalog request is in flight
CatalogQuiet == modelsInFlight = << >> /\ pricesInFlight = << >>

\* the dialog and the submit button.  The user switches the brand when the
\* catalog is quiet and has one createRequest out at a time; responses come
\* in any order, also while the dialog is open; the draft's issue, urgency
\* and description keep their defaults
Next ==
  \/ BrandsResponse(BrandRows)
  \/ BrandsFail
  \/ \E i \in 1..MaxInFlight : ModelsResponse(i)
  \/ \E i \in 1..MaxInFlight : ModelsFail(i)
  \/ \E i \in 1..MaxInFlight : PricesResponse(i)
  \/ \E i \in 1..MaxInFlight : PricesFail(i)
  \/ \E b \in BrandIds : CatalogQuiet /\ SelectBrand(b)
  \/ \E arr \in {<< >>, SubSeq(CenterPool, 1, 2)} : CentersResponse(arr)
  \/ CentersFail
  \/ \E i \in 1..MaxCenters : SelectFromList(i)
  \/ OpenDialog
  \/ CloseDialog
  \/ \E n \in NameInputs : SetName(n)
  \/ \E p \in PhoneInputs : SetPhone(p)
  \/ \E a \in BOOLEAN : SetAgree(a)
  \/ creating = << >> /\ Submit

Spec == Init /\ [][Next]_vars

\* the submission and its two outcomes.  The user fills the dialog with a
\* valid name and phone, edits the whole draft and picks the model when the
\* catalog is quiet
NextSubmit ==
  \/ BrandsResponse(BrandRows)
  \/ \E i \in 1..MaxInFlight : ModelsResponse(i)
  \/ \E i \in 1..MaxInFlight : PricesResponse(i)
  \/ \E m \in ModelIds : CatalogQuiet /\ SelectModel(m)
  \/ CentersResponse(SubSeq(CenterPool, 1, 2))
  \/ \E i \in 1..MaxCenters : SelectFromList(i)
  \/ OpenDialog
  \/ CloseDialog
  \/ SetName(<<"a", " ", "b">>)
  \/ SetPhone(<<"+", "7", " ", "9", "1", "2", "3", "4", "5">>)
  \/ \E a \in BOOLEAN : SetAgree(a)
  \/ \E d \in DescInputs : SetDesc(d)
  \/ \E c \in IssueChoices : SelectIssue(c)
  \/ \E v \in 1..3 : SetUrgency(v)
  \/ creating = << >> /\ Submit
  \/ \E i \in 1..MaxCreates : SubmitSuccess(i)
  \/ \E i \in 1..MaxCreates : SubmitFailure(i)

SpecSubmit == Init /\ [][NextSubmit]_vars

\* the submit button pressed again.  The dialog stays open and its button
\* enabled while createRequest is pending, so the user may press it any
\* number of times before an answer arrives
NextResubmit ==
  \/ BrandsResponse(BrandRows)
  \/ \E i \in 1..MaxInFlight : ModelsResponse(i)
  \/ \E i \in 1..MaxInFlight : PricesResponse(i)
  \/ CentersResponse(SubSeq(CenterPool, 1, 2))
  \/ \E i \in 1..MaxCenters : SelectFromList(i)
  \/ OpenDialog
  \/ CloseDialog
  \/ SetName(<<"a", " ", "b">>)
  \/ SetPhone(<<"+", "7", " ", "9", "1", "2", "3", "4", "5">>)
  \/ \E a \in BOOLEAN : SetAgree(a)
  \/ Submit
  \/ \E i \in 1..MaxCreates : SubmitSuccess(i)
  \/ \E i \in 1..MaxCreates : SubmitFailure(i)

SpecResubmit == Init /\ [][NextResubmit]_vars

\* the estimate: the issues and prices the backend holds, the issue chips
\* and the urgency slider; the user picks brand and model when the catalog
\* is quiet
NextEstimate ==
  \/ BrandsResponse(BrandRows)
  \/ \E i \in 1..MaxInFlight : ModelsResponse(i)
  \/ \E i \in 1..MaxInFlight : PricesResponse(i)
  \/ \E i \in 1..MaxInFlight : PricesFail(i)
  \/ \E b \in BrandIds : CatalogQuiet /\ SelectBrand(b)
  \/ \E m \in ModelIds : CatalogQuiet /\ SelectModel(m)
  \/ \E arr \in IssueLists : IssuesResponse(arr)
  \/ IssuesFail
  \/ \E c \in {"screen", "battery", "camera", "glass"} : SelectIssue(c)
  \/ \E v \in 1..3 : SetUrgency(v)

SpecEstimate == Init /\ [][NextEstimate]_vars

\* the rows the issues and centers endpoints hold in SpecShapes
ShapesIssueRows == << [code |-> "screen"], [code |-> "glass"] >>
ShapesCenterRows == SubSeq(CenterPool, 1, 2)
\* the list endpoints: every request is answered with status 200 and the
\* rows the backend holds, as a bare array or in a `results` envelope; the
\* user picks brand and model when the catalog is quiet
NextShapes ==
  \/ \E data \in Shapes(BrandRows) : BrandsData(data)
  \/ \E i \in DOMAIN modelsInFlight :
       \E data \in Shapes(ModelsOf(modelsInFlight[i].brand,
                                    modelsInFlight[i].q)) :
          ModelsData(i, data)
  \/ \E i \in DOMAIN pricesInFlight :
       \E data \in Shapes(PriceRows(pricesInFlight[i])) : PricesData(i, data)
  \/ \E data \in Shapes(ShapesIssueRows) : IssuesData(data)
  \/ \E data \in Shapes(ShapesCenterRows) : CentersData(data)
  \/ \E b \in BrandIds : CatalogQuiet /\ SelectBrand(b)
  \/ \E m \in ModelIds : CatalogQuiet /\ SelectModel(m)
  \/ \E q \in Searches : CatalogQuiet /\ SetModelSearch(q)
  \/ \E c \in {"screen", "glass"} : SelectIssue(c)

SpecShapes == Init /\ [][NextShapes]_vars

\* geolocation and the order: the position arrives, fails or was never
\* requested (Init), the user selects a center from the list, fills the
\* dialog with a valid name and phone and submits
NextDegraded ==
  \/ BrandsResponse(BrandRows)
  \/ \E i \in 1..MaxInFlight : ModelsResponse(i)
  \/ \E i \in 1..MaxInFlight : PricesResponse(i)
  \/ CentersResponse(SubSeq(CenterPool, 1, MaxCenters))
  \/ CentersFail
  \/ \E pos \in UserPositions : GeoSuccess(pos)
  \/ GeoError
  \/ \E i \in 1..MaxCenters : SelectFromList(i)
  \/ OpenDialog
  \/ CloseDialog
  \/ SetName(<<"a", " ", "b">>)
  \/ SetPhone(<<"+", "7", " ", "9", "1", "2", "3", "4", "5">>)
  \/ \E a \in BOOLEAN : SetAgree(a)
  \/ creating = << >> /\ Submit
  \/ \E i \in 1..MaxCreates : SubmitSuccess(i)
  \/ \E i \in 1..MaxCreates : SubmitFailure(i)

SpecDegraded == Init /\ [][NextDegraded]_vars

\* how often Tracking.load may fail in SpecShell
MaxAlerts == 2
\* the shell: the tabs, the sections' requests with their failures, and the
\* tracking lookup.  Repair's responses act while Repair is mounted
NextShell ==
  \/ \E t \in Tabs : SetTab(t)
  \/ \E d \in TrackingBodies : TrackingResponse(d)
  \/ alerts < MaxAlerts /\ TrackingFail
  \/ Rendered("Repair") /\ BrandsResponse(BrandRows)
  \/ Rendered("Repair") /\ BrandsFail
  \/ \E i \in 1..MaxInFlight : Rendered("Repair") /\ ModelsResponse(i)
  \/ \E i \in 1..MaxInFlight : Rendered("Repair") /\ ModelsFail(i)
  \/ \E i \in 1..MaxInFlight : Rendered("Repair") /\ PricesResponse(i)
  \/ \E i \in 1..MaxInFlight : Rendered("Repair") /\ PricesFail(i)
  \/ Rendered("Repair") /\ CentersResponse(SubSeq(CenterPool, 1, 2))
  \/ Rendered("Repair") /\ CentersFail
  \/ Rendered("Repair") /\ IssuesFail
  \/ Rendered("Repair") /\ LeafletLoaded

SpecShell == Init /\ [][NextShell]_vars

\* the distances of the list: centers and positions anywhere in the valid
\* latitude / longitude domain
NextGeo ==
  \/ \E arr \in GeoCenterLists : CentersResponse(arr)
  \/ CentersFail
  \/ \E pos \in GeoPositions : GeoSuccess(pos)
  \/ GeoError
  \/ LeafletLoaded

SpecGeo == Init /\ [][NextGeo]_vars

\* the center picker: centers, position, list and map
NextMap ==
  \/ \E arr \in CenterLists : CentersResponse(arr)
  \/ CentersFail
  \/ \E pos \in UserPositions : GeoSuccess(pos)
  \/ GeoError
  \/ LeafletLoaded
  \/ \E i \in 1..MaxCenters : SelectFromList(i)
  \/ \E i \in DOMAIN CenterPool : MarkerClick(String(CenterPool[i].id))

SpecMap == Init /\ [][NextMap]_vars

(* ------------------------------ claims --------------------------------- *)
\* helpers of the claims, stated without the model's own operators
DigitCount(s) ==
  Cardinality({i \in DOMAIN s :
     s[i] \in {"0", "1", "2", "3", "4", "5", "6", "7", "8", "9"}})
NonWhitespaceCount(s) == Cardinality({i \in DOMAIN s : s[i] # " "})
IdsOf(rows) == {rows[i].id : i \in DOMAIN rows}

\* C1: models fetch supersession.  Once no models request is in flight,
\* `models` is the list answered to the latest request (the one for the
\* current brandId and modelSearch; empty when that request failed) and
\* modelId is null or an id of that list: no response to an older request
\* has overwritten them.
C1_LatestModelsRequestWins ==
  (modelsInFlight = << >> /\ brandId # Null) =>
     /\ models \in {ModelsOf(brandId, modelSearch), << >>}
     /\ modelId \in {Null} \cup IdsOf(ModelsOf(brandId, modelSearch))

\* C2: prices fetch supersession.  Once no prices request is in flight,
\* priceMap is the one of the current modelId (empty when its request failed)
\* and is empty when modelId is null: no response for a previously selected
\* model, or arriving after the model was deselected, has overwritten it.
C2_PriceMapOfCurrentModel ==
  pricesInFlight = << >> =>
     priceMap \in {EmptyMap} \cup
        (IF modelId # Null THEN {ParsePrices(PriceRows(modelId))} ELSE {})

\* C3: createRequest is called only in a state where a center is selected,
\* the agreement flag is true, the name has at least 2 non-whitespace
\* characters, the phone has at least 7 digits, and a brand and a model are
\* selected; otherwise submit changes nothing.
C3_CreateOnlyWhenPreconditionsHold ==
  [][ (created' # created \/ Len(creating') > Len(creating))
        => /\ selectedCenterId # NullStr
           /\ agree
           /\ NonWhitespaceCount(name) >= 2
           /\ DigitCount(phone) >= 7
           /\ brandId # Null
           /\ modelId # Null ]_vars
\* a createRequest call went out, with a phone of 7 digits among 9 characters
C3_Witness ==
  /\ created = 1
  /\ Len(creating) = 1
  /\ DigitCount(creating[1].body.customer_phone) = 7
  /\ Len(creating[1].body.customer_phone) = 9

\* C4: when a createRequest resolves, name, phone and description become
\* empty and the agreement false, the id of the answered request is handed to
\* onOrder, and the center, brand, model, issue and urgency selections stay.
C4_SuccessResetsTransientFields ==
  [][ Len(orders') > Len(orders)
        => /\ name' = << >> /\ phone' = << >> /\ agree' = FALSE
           /\ desc' = << >>
           /\ \E i \in DOMAIN creating :
                /\ creating' = RemoveAt(creating, i)
                /\ Len(orders') = Len(orders) + 1
                /\ SubSeq(orders', 1, Len(orders)) = orders
                /\ Number(orders'[Len(orders')]) = creating[i].n
           /\ UNCHANGED <<selectedCenterId, brandId, modelId, issueCode,
                          urgency>> ]_vars
\* a request was created from a draft with non-default selections, which
\* are still there after the reset
C4_Witness ==
  /\ orders = << <<"1">> >>
  /\ creating = << >>
  /\ name = << >> /\ phone = << >> /\ ~agree /\ desc = << >> /\ ~showDialog
  /\ selectedCenterId = <<"2">> /\ modelId = 2 /\ issueCode = "battery"
  /\ urgency = 3

\* C5: when a createRequest rejects, the submit flow changes no draft field
\* (name, phone, agreement, description, center, brand, model, issue,
\* urgency), leaves the dialog as it is and does not call onOrder.
C5_FailureKeepsDraft ==
  [][ alerts' # alerts
        => UNCHANGED <<name, phone, agree, desc, selectedCenterId, brandId,
                       modelId, issueCode, urgency, showDialog, orders>> ]_vars
\* a createRequest was rejected and the filled dialog is still open
C5_Witness ==
  /\ alerts = 1
  /\ orders = << >>
  /\ creating = << >>
  /\ showDialog /\ agree /\ name # << >> /\ phone # << >> /\ desc # << >>

\* C6: whenever the confirm-and-send button is enabled (the dialog is open,
\* name and phone are ok, the agreement is given), a center, a brand and a
\* model are selected, so that submit does not return early.
C6_EnabledSubmitMeetsPreconditions ==
  (showDialog /\ nameOk /\ phoneOk /\ agree) =>
     (selectedCenterId # NullStr /\ brandId # Null /\ modelId # Null)

\* C7: whenever the dialog is open, selectedCenterId is non-null and is the
\* id of a center of the loaded `centers` list.
C7_OpenDialogHasLoadedCenter ==
  showDialog =>
     /\ selectedCenterId # NullStr
     /\ \E i \in DOMAIN centers : centers[i].id = Number(selectedCenterId)
\* the dialog is open over the second center of the loaded list
C7_Witness ==
  /\ showDialog
  /\ Len(centers) = 2
  /\ selectedCenterId = <<"2">>

\* the center the list highlights and the center whose popup the map shows
\* (each a set of at most one id)
C8_ListHighlight ==
  {String(centers[i].id) : i \in DOMAIN centers} \cap {selectedCenterId}
C8_MapHighlight == IF popup = NullStr THEN {} ELSE {popup}
\* C8: with the map created and the centers loaded, the center highlighted
\* in the list and the center whose popup is open on the map are the same.
C8_MapAndListAgree ==
  (mapRef /\ ~centersPending) => C8_ListHighlight = C8_MapHighlight

\* the distance of a center from userPos and its place in `centers`
C9_Distance(c) == haversine(userPos.lat, userPos.lng, c.lat, c.lng)
C9_IndexIn(c) == CHOOSE i \in DOMAIN centers : centers[i] = c
C10_RerankKeepsSelection ==
  [][ /\ (userPos' # userPos \/ centers' # centers)
           => selectedCenterId' = selectedCenterId
      /\ userPos' # userPos => centers' = centers ]_vars
\* a center is selected and the list is shown in an order other than the
\* backend's
C10_Witness ==
  /\ userPos # NoPos
  /\ selectedCenterId # NullStr
  /\ centersSorted # centers

\* C11: three-tier price fallback.  The base range of the estimate is the
\* server price of the selected issue code when priceMap has one; otherwise
\* the static entry of that code (screen 7000..12000 / 2 h, battery
\* 3000..6000 / 1 h, camera 3500..8000 / 1.5 h); otherwise 9000..12000 / 1 h.
\* An unknown code without server price at Standard urgency shows 10500 and
\* 1 h.
C11_ThreeTierFallback ==
  /\ issueCode \in DOMAIN priceMap =>
       /\ currentBase.min = priceMap[issueCode].min
       /\ currentBase.max = priceMap[issueCode].max
       /\ currentBase.hours2 = 2 * priceMap[issueCode].hours
  /\ issueCode \notin DOMAIN priceMap =>
       /\ issueCode = "screen" =>
            currentBase = [min |-> 7000, max |-> 12000, hours2 |-> 4]
       /\ issueCode = "battery" =>
            currentBase = [min |-> 3000, max |-> 6000, hours2 |-> 2]
       /\ issueCode = "camera" =>
            currentBase = [min |-> 3500, max |-> 8000, hours2 |-> 3]
       /\ issueCode \notin {"screen", "battery", "back", "camera", "charging",
                            "water", "speaker"} =>
            /\ currentBase = [min |-> 9000, max |-> 12000, hours2 |-> 2]
            /\ urgency = 1 =>
                 estimate = [priceMid200 |-> 200 * 10500, time |-> 1]
\* each tier is in use: the code "glass" of the issues response has no static
\* entry and, for the selected model, no server price; Standard urgency
C11_Witness ==
  /\ issueCode = "glass"
  /\ modelId = 3
  /\ priceMap # EmptyMap
  /\ "glass" \notin DOMAIN priceMap
  /\ urgency = 1

\* the multipliers of the claim: price in hundredths, time in tenths
C12_PriceMultiplier100 == CASE urgency = 1 -> 100 [] urgency = 2 -> 110
                            [] urgency = 3 -> 125
C12_TimeMultiplier10 == CASE urgency = 1 -> 12 [] urgency = 2 -> 10
                          [] urgency = 3 -> 8
\* C12: estimator formula.  midPrice = ((min + max) / 2) * priceMultiplier
\* (1.0, 1.1, 1.25) and etaHours = max(1, round(hours * timeMultiplier))
\* (1.2, 1.0, 0.8), round being the nearest integer, a half going up;
\* etaHours is an integer >= 1 also for server hours of 0 or less; screen
\* without server price shows 9500 / 2 h at Standard, 11875 / 2 h at Urgent.
C12_EstimatorFormula ==
  /\ urgency \in {1, 2, 3}
  /\ estimate.priceMid200 =
       (currentBase.min + currentBase.max) * C12_PriceMultiplier100
  /\ estimate.time \in Nat \ {0}
  /\ \E n \in -100..100 :
       /\ 20 * n - 10 <= currentBase.hours2 * C12_TimeMultiplier10
       /\ currentBase.hours2 * C12_TimeMultiplier10 < 20 * n + 10
       /\ estimate.time = IF n >= 1 THEN n ELSE 1
  /\ (issueCode = "screen" /\ "screen" \notin DOMAIN priceMap) =>
       /\ urgency = 1 => estimate = [priceMid200 |-> 200 * 9500, time |-> 2]
       /\ urgency = 3 => estimate = [priceMid200 |-> 200 * 11875, time |-> 2]
\* the server's hours of the selected issue are negative and the urgency is
\* Urgent: the rounded product is below 1
C12_Witness ==
  /\ issueCode = "glass"
  /\ "glass" \in DOMAIN priceMap
  /\ priceMap["glass"].hours < 0
  /\ urgency = 3
  /\ estimate.time = 1

\* a row whose three numeric fields coerce to finite numbers and that has an
\* issue code
C13_WellFormed(r) ==
  /\ r.issue # ""
  /\ ToNumber(r.price_min).finite
  /\ ToNumber(r.price_max).finite
  /\ ToNumber(r.hours).finite
\* the rows of the response that the i-th request in flight gets
C13_Rows(i) == PriceRows(pricesInFlight[i])
\* C13: malformed price rows are dropped per row.  When a model-prices
\* response is applied, priceMap gets exactly the rows whose price_min,
\* price_max and hours all coerce to finite numbers and that have an issue
\* code, each with its coerced values; the other rows are discarded.
C13_MalformedRowsDropped ==
  [][ \A i \in DOMAIN pricesInFlight :
        (pricesInFlight' = RemoveAt(pricesInFlight, i) /\ priceMap' # EmptyMap)
          => /\ DOMAIN priceMap' =
                  { C13_Rows(i)[k].issue :
                      k \in { j \in DOMAIN C13_Rows(i) :
                                C13_WellFormed(C13_Rows(i)[j]) } }
             /\ \A k \in DOMAIN C13_Rows(i) :
                  C13_WellFormed(C13_Rows(i)[k]) =>
                    priceMap'[C13_Rows(i)[k].issue] =
                      [min |-> ToNumber(C13_Rows(i)[k].price_min).v,
                       max |-> ToNumber(C13_Rows(i)[k].price_max).v,
                       hours |-> ToNumber(C13_Rows(i)[k].hours).v] ]_vars

\* C14: both response shapes are accepted with the same result.  Every
\* request being answered with the backend's rows, bare or in a `results`
\* envelope, the step that applies a response leaves the client with what
\* the rows give: brands, models (and the first model selected), priceMap,
\* issues and centers are those of the rows, whatever the shape.
C14_BothShapesSameState ==
  [][ /\ (brandsPending /\ ~brandsPending') => brands' = BrandRows
      /\ \A i \in DOMAIN modelsInFlight :
           modelsInFlight' = RemoveAt(modelsInFlight, i)
             => /\ models' = ModelsOf(modelsInFlight[i].brand,
                                      modelsInFlight[i].q)
                /\ modelId' \in {Null} \cup IdsOf(models')
                /\ models' # << >> => modelId' = models'[1].id
      /\ \A i \in DOMAIN pricesInFlight :
           pricesInFlight' = RemoveAt(pricesInFlight, i)
             => priceMap' = ParsePrices(PriceRows(pricesInFlight[i]))
      /\ (issuesPending /\ ~issuesPending') => issues' = ShapesIssueRows
      /\ (centersPending /\ ~centersPending') => centers' = ShapesCenterRows
    ]_vars

\* C15: fetch ordering by data dependency.  A step that issues a models
\* request does so for the brand then selected, which is not null; a step
\* that issues a prices request does so for the model then selected, which
\* is not null; with no brand, models and modelId are empty and no models
\* request exists; a step that leaves no model selected empties priceMap and
\* issues no prices request.
C15_FetchAfterDependency ==
  [][ /\ Len(modelsInFlight') > Len(modelsInFlight) =>
           /\ brandId' # Null
           /\ modelsInFlight' =
                Append(modelsInFlight, [brand |-> brandId', q |-> modelSearch'])
      /\ Len(pricesInFlight') > Len(pricesInFlight) =>
           /\ modelId' # Null
           /\ pricesInFlight' = Append(pricesInFlight, modelId')
      /\ brandId' = Null =>
           models' = << >> /\ modelId' = Null /\ modelsInFlight' = << >>
      /\ (modelId # Null /\ modelId' = Null) =>
           /\ priceMap' = EmptyMap
           /\ Len(pricesInFlight') <= Len(pricesInFlight) ]_vars
\* a model was selected and its prices requested, then a search without
\* match left no model selected: priceMap is empty, nothing was requested
C15_Witness ==
  /\ brandId # Null
  /\ modelSearch = "zz"
  /\ models = << >>
  /\ modelId = Null
  /\ priceMap = EmptyMap
  /\ modelsInFlight = << >>
  /\ pricesInFlight = <<1>>

\* C16: geolocation degradation.  Geolocation is requested at most once (at
\* mount) and never again; until a position is reported userPos is absent;
\* a step that ends the request without a position (denied, unavailable,
\* timed out) leaves userPos absent, reports no error and changes nothing
\* else of the form; whenever userPos is absent the list is in backend
\* order.  Selecting a center and submitting stay possible (C16_Witness).
C16_GeolocationDegrades ==
  [][ /\ geoPending' => geoPending
      /\ userPos' # userPos => (geoPending /\ ~geoPending')
      /\ (geoPending /\ ~geoPending' /\ userPos' = NoPos) =>
           /\ alerts' = alerts
           /\ UNCHANGED <<centers, selectedCenterId, showDialog, name, phone,
                          agree, creating, created, orders>>
      /\ userPos' = NoPos => Rank(centers', userPos') = centers' ]_vars
\* without a position (the request ended) the list shows the loaded centers
\* in backend order, the second was selected and an order was created
C16_Witness ==
  /\ ~geoPending
  /\ userPos = NoPos
  /\ Len(centers) = MaxCenters
  /\ centersSorted = centers
  /\ selectedCenterId = <<"2">>
  /\ orders = << <<"1">> >>
  /\ alerts = 0

\* a step in which a backend operation failed: an alert, or a list request
\* ended by its catch
C17_OperationFailed ==
  \/ alerts' # alerts
  \/ brandsPending /\ ~brandsPending' /\ brands' = << >>
  \/ centersPending /\ ~centersPending' /\ centers' = << >>
  \/ issuesPending /\ ~issuesPending' /\ issues' = issues
\* C17: fault isolation.  Whatever happens in a section, a rendering fault
\* included, the header, the navigation and the footer stay rendered; and a
\* step in which a backend operation fails leaves everything that was
\* rendered on screen.
C17_FaultIsIsolated ==
  [][ /\ Rendered("header")' /\ Rendered("nav")' /\ Rendered("footer")'
      /\ C17_OperationFailed =>
           \A r \in {"header", "nav", "footer"} \cup Tabs :
             Rendered(r) => Rendered(r)' ]_vars

\* x === y and x >= 0 of JS numbers: false when an operand is NaN
NumEq(x, y) == x # NotANumber /\ y # NotANumber /\ x = y
NumGeq0(x) == x # NotANumber /\ x >= 0
\* C18: great-circle distance.  For the position and every center of the
\* list the distance shown is a number >= 0, is the same with the two
\* points exchanged, and the distance of a point from itself is 0.
C18_DistanceIsSymmetricNonNegative ==
  userPos # NoPos =>
    /\ NumEq(haversine(userPos.lat, userPos.lng, userPos.lat, userPos.lng), 0)
    /\ \A i \in DOMAIN centers :
         /\ NumGeq0(dist(centers[i]))
         /\ NumEq(dist(centers[i]),
                  haversine(centers[i].lat, centers[i].lng,
                            userPos.lat, userPos.lng))
         /\ NumEq(haversine(centers[i].lat, centers[i].lng,
                            centers[i].lat, centers[i].lng), 0)

\* C19: every loaded center gets a marker, whatever the order of events.
\* Once the centers response has been applied and the Leaflet script has
\* loaded and the map exists, the marker ids are the ids of the centers.
C19_MarkersForAllCenters ==
  (~centersPending /\ leafletL /\ mapRef) =>
     markersRef = {String(centers[i].id) : i \in DOMAIN centers}

\* C20: the creation payload is consistent.  In every createRequest call
\* the brand name and the model name are not empty and the model is a model
\* of that brand in the backend's catalog.
C20_PayloadConsistent ==
  \A i \in DOMAIN creating :
     /\ creating[i].body.brand # ""
     /\ creating[i].body.model # ""
     /\ \E j \in DOMAIN BrandRows, k \in DOMAIN ModelRows :
          /\ BrandRows[j].name = creating[i].body.brand
          /\ ModelRows[k].name = creating[i].body.model
          /\ ModelRows[k].brand = BrandRows[j].id

(* C21: at most one createRequest is in flight at a time: a submit invoked
   while a createRequest issued by submit is pending does not issue a
   second one, so one filled draft creates at most one repair request *)
C21_AtMostOneCreateInFlight ==
  [][creating # << >> => Len(creating') <= Len(creating)]_vars

(* C22: once the issues response has been applied, the selected issue code
   is the code of an entry of the displayed issue list, whatever the order
   of the user's chip selections and the response, and whatever non-empty
   list the backend returned *)
C22_IssueCodeInIssues ==
  ~issuesPending => \E i \in DOMAIN issues : issues[i].code = issueCode

\* a step that applies the answer, or the failure, of a models request
C23_ModelsAnswerApplied == Len(modelsInFlight') < Len(modelsInFlight)

(* C23: in every reachable state modelId is null or the id of an entry of
   `models`; every applied models response sets modelId to the id of the
   first entry of the new list, or to null when the list is empty or the
   fetch failed *)
C23_ModelIdWithinModels ==
  /\ [](modelId = Null \/ modelId \in IdsOf(models))
  /\ [][C23_ModelsAnswerApplied =>
          modelId' = IF models' # << >> THEN models'[1].id ELSE Null]_vars

\* the user has picked a model other than the first of a loaded list, and a
\* later models request is still to be answered
C23_Witness ==
  /\ Len(models) >= 2
  /\ modelId = models[2].id
  /\ modelsInFlight # << >>

====
